---- MODULE Spec2Model ----
(***************************************************************************)
(* Model of internal/provider/resource_tfe_data_retention_policy.go: the   *)
(* tfe_data_retention_policy resource.  One resource instance, its         *)
(* persisted Terraform state, the provider configuration it was given and  *)
(* the remote store of data retention policies it talks to.  Every handler *)
(* (Configure, Create, Read, Update, Delete, ImportState) is one atomic    *)
(* action: the handlers are synchronous and share no state but r.config.   *)
(*                                                                         *)
(* Strings are sequences of one-character strings, "" is << >>.            *)
(* types.String is [null, value]; types.Number is a fixed-point number     *)
(* counted in 1/Scale units, so 307 is 30.7 and 300 is 30.0.               *)
(***************************************************************************)
EXTENDS Integers, Sequences, FiniteSets, TLC

VARIABLES
    config,    \* r.config: the ConfiguredClient given to Configure
    state,     \* the resource's persisted state (resp.State of the last writer)
    remote,    \* the remote store: one policy per organization / per workspace
    nextId,    \* the number of the next policy id the remote store assigns
    last       \* the last handler call: its inputs, remote calls and diagnostics

vars == <<config, state, remote, nextId, last>>

----------------------------------------------------------------------------
(* Bounds *)

MaxRemoteIds == 2      \* successful remote "set" calls in one behaviour
MaxIdLen == 3          \* length of an import identifier

Scale == 10            \* fixed-point denominator of a types.Number

----------------------------------------------------------------------------
(* Strings *)

Chars == {"a", "/"}

Strs(n) == UNION {[1..k -> Chars] : k \in 0..n}

ImportIds == Strs(MaxIdLen)

OrgA == <<"a">>
WsW == <<"w">>

OrgB == <<"a", "a">>

HasSlash(str) == \E i \in 1..Len(str) : str[i] = "/"

\* the organization names and the workspace ids the client is called with
OrgAddrs == {s \in ImportIds : ~HasSlash(s)} \cup {OrgA, OrgB}
WsAddrs == {WsW}

Digit == <<"1", "2", "3", "4", "5", "6", "7", "8", "9">>

\* the id the remote store gives to its n-th policy
PolId(n) == <<"p", Digit[n]>>

\* strings.Index(s, sep) for a one-character sep, 1-based; 0 when absent
Index(s, sep) ==
    IF \E i \in 1..Len(s) : s[i] = sep
    THEN CHOOSE i \in 1..Len(s) : s[i] = sep /\ \A j \in 1..(i - 1) : s[j] # sep
    ELSE 0

RECURSIVE SplitN(_, _, _)
\* strings.SplitN(s, sep, n) for a one-character sep
SplitN(s, sep, n) ==
    IF n = 0 THEN << >>
    ELSE IF n = 1 \/ Index(s, sep) = 0 THEN <<s>>
    ELSE <<SubSeq(s, 1, Index(s, sep) - 1)>>
         \o SplitN(SubSeq(s, Index(s, sep) + 1, Len(s)), sep, n - 1)

----------------------------------------------------------------------------
(* Framework values *)

StringNull == [null |-> TRUE, value |-> << >>]
StringValue(s) == [null |-> FALSE, value |-> s]
ValueString(v) == v.value

DeleteOlderThanNull == [null |-> TRUE, days |-> 0]
DeleteOlderThanValue(d) == [null |-> FALSE, days |-> d]

DontDeleteNull == [null |-> TRUE]
DontDeleteValue == [null |-> FALSE]

\* modelTFEDataRetentionPolicy with every attribute null
NullModel ==
    [ID |-> StringNull, Organization |-> StringNull, WorkspaceId |-> StringNull,
     DeleteOlderThan |-> DeleteOlderThanNull, DontDelete |-> DontDeleteNull]

NoState == [exists |-> FALSE, m |-> NullModel]
StateOf(m) == [exists |-> TRUE, m |-> m]

\* big.Float.Int64(): the integer part, truncated toward zero
BigFloatInt64(d) == IF d >= 0 THEN d \div Scale ELSE -((-d) \div Scale)

\* big.NewFloat(float64(n)) as a types.Number
NumberValue(n) == n * Scale

----------------------------------------------------------------------------
(* The remote store and its client *)

Absent == [kind |-> "absent", id |-> << >>, days |-> 0]
DeleteOlder(id, n) == [kind |-> "delete_older", id |-> id, days |-> n]
DontDelete(id) == [kind |-> "dont_delete", id |-> id, days |-> 0]

NoCalls == << >>

Call(method, family, addr, n) ==
    [method |-> method, family |-> family, addr |-> addr, days |-> n]

\* Organizations./Workspaces.SetDataRetentionPolicyDeleteOlder and
\* ...DontDelete: the store keeps what is set and answers with it
RemoteSet(rem, family, addr, policy, fail) ==
    IF fail THEN [remote |-> rem, policy |-> Absent, err |-> TRUE]
    ELSE [remote |-> [rem EXCEPT ![family][addr] = policy],
          policy |-> policy, err |-> FALSE]

\* Organizations./Workspaces.ReadDataRetentionPolicyChoice
RemoteRead(rem, family, addr, fail) ==
    IF fail THEN [policy |-> Absent, err |-> TRUE]
    ELSE [policy |-> rem[family][addr], err |-> FALSE]

----------------------------------------------------------------------------
(* Inputs *)

\* ConfiguredClient values: Client is TRUE for a non-nil *tfe.Client
ZeroClient == [Client |-> FALSE, Organization |-> << >>]
ConfiguredClients == {[Client |-> TRUE, Organization |-> o] : o \in {<< >>, OrgB}}

\* req.ProviderData: nil, a value of another type, or a ConfiguredClient
ProviderData ==
    {[kind |-> "nil", client |-> ZeroClient], [kind |-> "other", client |-> ZeroClient]}
    \cup {[kind |-> "client", client |-> c] : c \in ConfiguredClients}

DaysValues == {300, 307, -15}

\* the configurations the validators are run on and the plans Create and
\* Update are handed, whatever the validators say of them; ID is computed,
\* so not yet known
Plans ==
    [ID : {StringNull},
     Organization : {StringNull, StringValue(OrgA)},
     WorkspaceId : {StringNull, StringValue(WsW)},
     DeleteOlderThan : {DeleteOlderThanNull} \cup {DeleteOlderThanValue(d) : d \in DaysValues},
     DontDelete : {DontDeleteNull, DontDeleteValue}]

\* objectvalidator.ExactlyOneOf on delete_older_than and dont_delete
ExactlyOneOf(plan) == plan.DeleteOlderThan.null # plan.DontDelete.null

----------------------------------------------------------------------------
(* Helpers of the provider package *)

NoDiags == << >>

\* ConfiguredClient.dataOrDefaultOrganization: the declared organization,
\* else the provider's default, else an error
dataOrDefaultOrganization(cfg, plan) ==
    IF ~plan.Organization.null
    THEN [organization |-> ValueString(plan.Organization), diags |-> NoDiags]
    ELSE IF cfg.Organization = << >>
    THEN [organization |-> << >>,
          diags |-> <<"No organization was specified on the resource or provider">>]
    ELSE [organization |-> cfg.Organization, diags |-> NoDiags]

modelFromTFEDataRetentionPolicyDeleteOlder(model, policy) ==
    [ID |-> StringValue(policy.id),
     Organization |-> model.Organization,
     WorkspaceId |-> model.WorkspaceId,
     DeleteOlderThan |-> DeleteOlderThanValue(NumberValue(policy.days)),
     DontDelete |-> DontDeleteNull]

modelFromTFEDataRetentionPolicyDontDelete(model, policy) ==
    [ID |-> StringValue(policy.id),
     Organization |-> model.Organization,
     WorkspaceId |-> model.WorkspaceId,
     DeleteOlderThan |-> DeleteOlderThanNull,
     DontDelete |-> DontDeleteValue]

\* a choice with neither payload is mapped to no variant at all
modelFromTFEDataRetentionPolicyChoice(model, policy) ==
    IF policy.kind = "delete_older"
    THEN modelFromTFEDataRetentionPolicyDeleteOlder(model, policy)
    ELSE IF policy.kind = "dont_delete"
    THEN modelFromTFEDataRetentionPolicyDontDelete(model, policy)
    ELSE [ID |-> StringNull,
          Organization |-> model.Organization,
          WorkspaceId |-> model.WorkspaceId,
          DeleteOlderThan |-> DeleteOlderThanNull,
          DontDelete |-> DontDeleteNull]

----------------------------------------------------------------------------
(* The handlers *)

\* what a handler leaves behind
Resp(st, rem, nid, calls, diags) ==
    [state |-> st, remote |-> rem, nextId |-> nid, calls |-> calls, diags |-> diags]

HasError(diags) == diags # NoDiags

\* Configure: r.config after the call; nil provider data returns early,
\* a value of another type leaves the zero ConfiguredClient
ConfigureClient(cfg, pd) == IF pd.kind = "nil" THEN cfg ELSE pd.client

ConfigureResp(pd, st, rem, nid) ==
    Resp(st, rem, nid, NoCalls,
         IF pd.kind = "other" THEN <<"Unexpected resource Configure type">> ELSE NoDiags)

\* mutant: the diagnostics of the organization lookup are not appended
ResolveOrganization_DropDiags(cfg, plan) ==
    IF plan.WorkspaceId.null
    THEN [plan |-> [plan EXCEPT !.Organization =
                        StringValue(dataOrDefaultOrganization(cfg, plan).organization)],
          diags |-> NoDiags]
    ELSE [plan |-> plan, diags |-> NoDiags]

\* Create: "if plan.WorkspaceId.IsNull()" resolves the organization
ResolveOrganization(cfg, plan) ==
    IF plan.WorkspaceId.null
    THEN LET r == dataOrDefaultOrganization(cfg, plan)
         IN  [plan |-> [plan EXCEPT !.Organization = StringValue(r.organization)],
              diags |-> r.diags]
    ELSE [plan |-> plan, diags |-> NoDiags]

\* mutant: the null checks of the two blocks are inverted
CreateVariant_Inverted(plan) ==
    IF plan.DeleteOlderThan.null THEN "delete_older"
    ELSE IF plan.DontDelete.null THEN "dont_delete"
    ELSE "none"

\* Create: which of the two create functions runs
CreateVariant(plan) ==
    IF ~plan.DeleteOlderThan.null THEN "delete_older"
    ELSE IF ~plan.DontDelete.null THEN "dont_delete"
    ELSE "none"

\* mutant: a declared organization takes precedence over the workspace
createDeleteOlderScope_OrgFirst(plan) ==
    IF ~plan.Organization.null
    THEN [family |-> "org", addr |-> ValueString(plan.Organization)]
    ELSE [family |-> "ws", addr |-> ValueString(plan.WorkspaceId)]

\* the remote target of createDeleteOlderThanRetentionPolicy
createDeleteOlderScope(plan) ==
    IF plan.WorkspaceId.null
    THEN [family |-> "org", addr |-> ValueString(plan.Organization)]
    ELSE [family |-> "ws", addr |-> ValueString(plan.WorkspaceId)]

\* the remote target of createDontDeleteRetentionPolicy
createDontDeleteScope(plan) ==
    IF plan.WorkspaceId.null
    THEN [family |-> "org", addr |-> ValueString(plan.Organization)]
    ELSE [family |-> "ws", addr |-> ValueString(plan.WorkspaceId)]

\* mutant: Read always asks the organization
readScope_OrgOnly(model) ==
    [family |-> "org", addr |-> ValueString(model.Organization)]

\* the remote target of Read
readScope(model) ==
    IF model.WorkspaceId.null
    THEN [family |-> "org", addr |-> ValueString(model.Organization)]
    ELSE [family |-> "ws", addr |-> ValueString(model.WorkspaceId)]

\* DeleteOlderThanNDays: int(deleteOlderThanDays)
DeleteOlderThanNDays(plan) == BigFloatInt64(plan.DeleteOlderThan.days)

\* mutant: the plan is saved although the remote call failed
createDeleteOlderThanRetentionPolicy_SaveOnError(plan, st, rem, nid, fail) ==
    LET n == DeleteOlderThanNDays(plan)
        sc == createDeleteOlderScope(plan)
        r == RemoteSet(rem, sc.family, sc.addr, DeleteOlder(PolId(nid), n), fail)
        calls == <<Call("SetDataRetentionPolicyDeleteOlder", sc.family, sc.addr, n)>>
    IN  Resp(StateOf(modelFromTFEDataRetentionPolicyDeleteOlder(plan, r.policy)),
             r.remote, IF r.err THEN nid ELSE nid + 1, calls,
             IF r.err THEN <<"Unable to create data retention policy">> ELSE NoDiags)

createDeleteOlderThanRetentionPolicy(plan, st, rem, nid, fail) ==
    LET n == DeleteOlderThanNDays(plan)
        sc == createDeleteOlderScope(plan)
        r == RemoteSet(rem, sc.family, sc.addr, DeleteOlder(PolId(nid), n), fail)
        calls == <<Call("SetDataRetentionPolicyDeleteOlder", sc.family, sc.addr, n)>>
    IN  IF r.err
        THEN Resp(st, r.remote, nid, calls, <<"Unable to create data retention policy">>)
        ELSE Resp(StateOf(modelFromTFEDataRetentionPolicyDeleteOlder(plan, r.policy)),
                  r.remote, nid + 1, calls, NoDiags)

\* plan.DeleteOlderThan is null here and decodes to a nil pointer without
\* a diagnostic; the decoded value is not used
createDontDeleteRetentionPolicy(plan, st, rem, nid, fail) ==
    LET sc == createDontDeleteScope(plan)
        r == RemoteSet(rem, sc.family, sc.addr, DontDelete(PolId(nid)), fail)
        calls == <<Call("SetDataRetentionPolicyDontDelete", sc.family, sc.addr, 0)>>
    IN  IF r.err
        THEN Resp(st, r.remote, nid, calls, <<"Unable to create data retention policy">>)
        ELSE Resp(StateOf(modelFromTFEDataRetentionPolicyDontDelete(plan, r.policy)),
                  r.remote, nid + 1, calls, NoDiags)

\* mutant: the two blocks only conflict with each other, none is required
ValidateConfig_AtMostOne(plan) ==
    IF ~plan.DeleteOlderThan.null /\ ~plan.DontDelete.null
    THEN <<"Invalid Attribute Combination", "Invalid Attribute Combination">>
    ELSE NoDiags

\* Schema: the diagnostics of the ExactlyOneOf validators of the two blocks
ValidateConfig(plan) ==
    (IF ExactlyOneOf(plan) THEN NoDiags ELSE <<"Invalid Attribute Combination">>)
    \o (IF ExactlyOneOf(plan) THEN NoDiags ELSE <<"Invalid Attribute Combination">>)

\* Create, from the plan to the handler's response; it does not consult the
\* validators.  With neither block it falls off the end of the function.
CreateResp(cfg, plan, st, rem, nid, fail) ==
    LET ro == ResolveOrganization(cfg, plan)
    IN  IF HasError(ro.diags)
        THEN Resp(st, rem, nid, NoCalls, ro.diags)
        ELSE IF CreateVariant(ro.plan) = "delete_older"
        THEN createDeleteOlderThanRetentionPolicy(ro.plan, st, rem, nid, fail)
        ELSE IF CreateVariant(ro.plan) = "dont_delete"
        THEN createDontDeleteRetentionPolicy(ro.plan, st, rem, nid, fail)
        ELSE Resp(st, rem, nid, NoCalls, NoDiags)

\* a validation of the configuration: the schema's validators alone
ValidateResp(plan, st, rem, nid) ==
    Resp(st, rem, nid, NoCalls, ValidateConfig(plan))

\* Read, from the prior state to the response
ReadResp(model, st, rem, nid, fail) ==
    LET sc == readScope(model)
        r == RemoteRead(rem, sc.family, sc.addr, fail)
        calls == <<Call("ReadDataRetentionPolicyChoice", sc.family, sc.addr, 0)>>
    IN  IF r.err
        THEN Resp(st, rem, nid, calls, <<"Failed to read data retention policy">>)
        ELSE Resp(StateOf(modelFromTFEDataRetentionPolicyChoice(model, r.policy)),
                  rem, nid, calls, NoDiags)

\* mutant: Update left empty
UpdateResp_Empty(plan, st, rem, nid) ==
    Resp(st, rem, nid, NoCalls, NoDiags)

UpdateResp(plan, st, rem, nid) ==
    Resp(st, rem, nid, NoCalls, <<"Update not supported">>)

\* mutant: Delete resets the policy of the scope on the remote store
DeleteResp_Reset(model, st, rem, nid) ==
    Resp(NoState, [rem EXCEPT ![readScope(model).family][readScope(model).addr] = Absent],
         nid, <<Call("DeleteDataRetentionPolicy", readScope(model).family,
                     readScope(model).addr, 0)>>, NoDiags)

\* Delete has no statement; with no diagnostic added the framework drops
\* the resource from the state
DeleteResp(model, st, rem, nid) ==
    Resp(NoState, rem, nid, NoCalls, NoDiags)

\* mutant: the identifier is split on every "/"
ImportStateResp_SplitAll(id, st, rem, nid) ==
    LET s == SplitN(id, "/", -1)
    IN  IF Len(s) # 2
        THEN Resp(st, rem, nid, NoCalls, <<"Error importing variable">>)
        ELSE Resp(StateOf([NullModel EXCEPT !.Organization = StringValue(s[1]),
                                            !.ID = StringValue(s[2])]),
                  rem, nid, NoCalls, NoDiags)

\* ImportState: organization and id are the two parts of req.ID
ImportStateResp(id, st, rem, nid) ==
    LET s == SplitN(id, "/", 2)
    IN  IF Len(s) # 2
        THEN Resp(st, rem, nid, NoCalls, <<"Error importing variable">>)
        ELSE Resp(StateOf([NullModel EXCEPT !.Organization = StringValue(s[1]),
                                            !.ID = StringValue(s[2])]),
                  rem, nid, NoCalls, NoDiags)

----------------------------------------------------------------------------
(* The state machine *)

Last(op, plan, id, fail, resp) ==
    [op |-> op, plan |-> plan, id |-> id, fail |-> fail,
     calls |-> resp.calls, diags |-> resp.diags]

Apply(op, plan, id, fail, resp) ==
    /\ resp.nextId <= MaxRemoteIds + 1
    /\ state' = resp.state
    /\ remote' = resp.remote
    /\ nextId' = resp.nextId
    /\ last' = Last(op, plan, id, fail, resp)

Init ==
    /\ config = ZeroClient
    /\ state = NoState
    /\ remote = [org |-> [a \in OrgAddrs |-> Absent], ws |-> [a \in WsAddrs |-> Absent]]
    /\ nextId = 1
    /\ last = Last("New", NullModel, << >>, FALSE, Resp(NoState, remote, 1, NoCalls, NoDiags))

\* Configure runs until the resource holds a client
Configure(pd) ==
    /\ ~config.Client
    /\ config' = ConfigureClient(config, pd)
    /\ last' = Last("Configure", NullModel, << >>, FALSE, ConfigureResp(pd, state, remote, nextId))
    /\ UNCHANGED <<state, remote, nextId>>

\* the validators run on the configuration of a resource not yet created;
\* this is a request of its own, and Create does not depend on its outcome
ValidateResourceConfig(plan) ==
    /\ ~state.exists
    /\ Apply("ValidateConfig", plan, << >>, FALSE,
             ValidateResp(plan, state, remote, nextId))
    /\ UNCHANGED config

\* Create runs for a resource that has no state yet
Create(plan, fail) ==
    /\ config.Client
    /\ ~state.exists
    /\ Apply("Create", plan, << >>, fail, CreateResp(config, plan, state, remote, nextId, fail))
    /\ UNCHANGED config

\* Read refreshes a resource that is in the state
Read(fail) ==
    /\ config.Client
    /\ state.exists
    /\ Apply("Read", state.m, << >>, fail, ReadResp(state.m, state, remote, nextId, fail))
    /\ UNCHANGED config

Update(plan) ==
    /\ Apply("Update", NullModel, << >>, FALSE, UpdateResp(plan, state, remote, nextId))
    /\ UNCHANGED config

Delete ==
    /\ state.exists
    /\ Apply("Delete", state.m, << >>, FALSE, DeleteResp(state.m, state, remote, nextId))
    /\ UNCHANGED config

\* ImportState starts from an empty state
ImportState(id) ==
    /\ ~state.exists
    /\ Apply("ImportState", NullModel, id, FALSE, ImportStateResp(id, state, remote, nextId))
    /\ UNCHANGED config

Next ==
    \/ \E pd \in ProviderData : Configure(pd)
    \/ \E plan \in Plans : ValidateResourceConfig(plan)
    \/ \E plan \in Plans, fail \in BOOLEAN : Create(plan, fail)
    \/ \E fail \in BOOLEAN : Read(fail)
    \/ \E plan \in Plans : Update(plan)
    \/ Delete
    \/ \E id \in ImportIds : ImportState(id)

Spec == Init /\ [][Next]_vars

----------------------------------------------------------------------------
(* Properties *)

\* the plan names a workspace, an organization, or the provider has a default
ScopeResolves(plan) ==
    ~plan.WorkspaceId.null \/ ~plan.Organization.null \/ config.Organization # << >>

\* the organization a Create without workspace_id addresses
ResolvedOrganization(plan) ==
    IF ~plan.Organization.null THEN plan.Organization.value ELSE config.Organization

WholeDays(plan) == plan.DeleteOlderThan.null \/ plan.DeleteOlderThan.days % Scale = 0

Succeeded(l) == l.diags = NoDiags

\* C1: a Create whose plan sets exactly one of delete_older_than and
\* dont_delete, and whose scope resolves, issues exactly one remote call:
\* the delete-older set call when delete_older_than is declared, the
\* dont-delete set call when dont_delete is declared.
C1_ExactlyOneSetCall ==
    (last.op = "Create" /\ ExactlyOneOf(last.plan) /\ ScopeResolves(last.plan)) =>
        /\ Len(last.calls) = 1
        /\ ~last.plan.DeleteOlderThan.null =>
               last.calls[1].method = "SetDataRetentionPolicyDeleteOlder"
        /\ ~last.plan.DontDelete.null =>
               last.calls[1].method = "SetDataRetentionPolicyDontDelete"

C1_Witness ==
    /\ last.op = "Create"
    /\ last.plan.DeleteOlderThan.null /\ ~last.plan.DontDelete.null
    /\ Len(last.calls) = 1
    /\ last.calls[1].method = "SetDataRetentionPolicyDontDelete"

\* C2: every remote call of Create and of Read goes to the workspace named
\* by workspace_id when there is one, whatever the organization is, and
\* otherwise to the resolved organization.
C2_WorkspaceWins ==
    last.op \in {"Create", "Read"} =>
        \A i \in 1..Len(last.calls) :
            IF ~last.plan.WorkspaceId.null
            THEN /\ last.calls[i].family = "ws"
                 /\ last.calls[i].addr = last.plan.WorkspaceId.value
            ELSE /\ last.calls[i].family = "org"
                 /\ last.calls[i].addr = ResolvedOrganization(last.plan)

C2_Witness ==
    /\ last.op = "Create"
    /\ ~last.plan.WorkspaceId.null /\ ~last.plan.Organization.null
    /\ ~last.plan.DeleteOlderThan.null
    /\ Len(last.calls) = 1
    /\ last.calls[1].family = "ws" /\ last.calls[1].addr = WsW

\* C3: a Create with no workspace_id, no organization and no provider
\* default organization fails, makes no remote call and persists no state.
C3_NoScopeFails ==
    (last.op = "Create" /\ ~ScopeResolves(last.plan)) =>
        /\ ~Succeeded(last)
        /\ last.calls = NoCalls
        /\ ~state.exists

C3_Witness ==
    /\ last.op = "Create" /\ ~ScopeResolves(last.plan)
    /\ ExactlyOneOf(last.plan)
    /\ ~Succeeded(last)

\* C4: when the remote call of a Create or a Read fails, the handler reports
\* an error, writes nothing to the state and makes no second call.
C4_RemoteErrorWritesNothing ==
    [][(last'.op \in {"Create", "Read"} /\ last'.fail /\ last'.calls # NoCalls) =>
           /\ ~Succeeded(last')
           /\ state' = state
           /\ remote' = remote
           /\ Len(last'.calls) = 1]_vars

C4_Witness ==
    /\ last.op = "Read" /\ last.fail
    /\ Len(last.calls) = 1 /\ ~Succeeded(last)
    /\ state.exists /\ ~state.m.DeleteOlderThan.null

\* C5: every Update reports an error, makes no remote call and changes
\* neither the state nor the remote store.
C5_UpdateAlwaysFails ==
    [][last'.op = "Update" =>
           /\ ~Succeeded(last')
           /\ last'.calls = NoCalls
           /\ state' = state
           /\ remote' = remote]_vars

C5_Witness ==
    /\ last.op = "Update" /\ ~Succeeded(last)
    /\ state.exists /\ nextId > 1

\* C6: ImportState fails and sets nothing for an identifier without "/";
\* otherwise organization is the text before the first "/" and id is all
\* the text after it.
C6_ImportSplitsOnFirstSlash ==
    [][last'.op = "ImportState" =>
           IF ~HasSlash(last'.id)
           THEN ~Succeeded(last') /\ state' = state
           ELSE /\ Succeeded(last')
                /\ state'.exists
                /\ ~state'.m.Organization.null /\ ~state'.m.ID.null
                /\ ~HasSlash(state'.m.Organization.value)
                /\ state'.m.Organization.value \o <<"/">> \o state'.m.ID.value = last'.id]_vars

C6_Witness ==
    /\ last.op = "ImportState" /\ Succeeded(last)
    /\ state.exists
    /\ state.m.Organization.value = OrgA
    /\ HasSlash(state.m.ID.value)

\* C7: a Read that follows a successful Create of a valid plan with a whole
\* number of days leaves the state with the plan's variant and days, the
\* plan's scope and the id the remote store assigned; a Read never changes
\* the remote store, and a Read that follows a Read changes nothing.
C7_RoundTrip ==
    [][(last'.op = "Read" /\ Succeeded(last')) =>
           /\ remote' = remote
           /\ (last.op = "Read" /\ Succeeded(last)) => state' = state
           /\ (/\ last.op = "Create" /\ Succeeded(last)
               /\ ExactlyOneOf(last.plan) /\ WholeDays(last.plan)) =>
                  /\ state' = state
                  /\ state'.m.DeleteOlderThan = last.plan.DeleteOlderThan
                  /\ state'.m.DontDelete = last.plan.DontDelete
                  /\ state'.m.WorkspaceId = last.plan.WorkspaceId
                  /\ last.plan.WorkspaceId.null =>
                         state'.m.Organization = StringValue(ResolvedOrganization(last.plan))
                  /\ state'.m.ID = StringValue(PolId(nextId - 1))]_vars

C7_Witness ==
    /\ last.op = "Read" /\ Succeeded(last)
    /\ state.exists
    /\ state.m.DeleteOlderThan = DeleteOlderThanValue(300)
    /\ state.m.ID = StringValue(PolId(1))
    /\ remote["org"][OrgB] = DeleteOlder(PolId(1), 30)

\* C8: Delete makes no remote call, reports no error and leaves the remote
\* store as it was.
C8_DeleteLeavesRemote ==
    [][last'.op = "Delete" =>
           /\ last'.calls = NoCalls
           /\ Succeeded(last')
           /\ remote' = remote]_vars

C8_Witness ==
    /\ last.op = "Delete"
    /\ ~state.exists
    /\ remote["ws"][WsW].kind = "dont_delete"

C10_FractionalDaysRejected ==
    (/\ last.op = "Create"
     /\ ExactlyOneOf(last.plan)
     /\ ~last.plan.DeleteOlderThan.null
     /\ last.plan.DeleteOlderThan.days >= 0
     /\ ScopeResolves(last.plan)) =>
        IF WholeDays(last.plan)
        THEN /\ Len(last.calls) = 1
             /\ last.calls[1].days * Scale = last.plan.DeleteOlderThan.days
        ELSE ~Succeeded(last) /\ last.calls = NoCalls

====
